---- MODULE Spec2Model ----
(***************************************************************************)
(* Payment service: the payment store and its status state machine, the    *)
(* gateway simulator run as a background task, the manual approve/refund   *)
(* request handlers, the enrollment-event consumer run-loop and the        *)
(* start-once latch of the consumer thread.                                *)
(*                                                                         *)
(* Amounts are floats in the program; here an amount is an integer number  *)
(* of halves (3 is 1.5, -3 is -1.5), which is enough to tell truncation    *)
(* from floor and even from odd.                                           *)
(***************************************************************************)
EXTENDS Integers, Sequences, FiniteSets, TLC

VARIABLES
  payments,   \* the payments table: row p is the payment with id p
  tasks,      \* per payment: its creating request and its background task
  calls,      \* per request worker: the approve/refund call it is running
  now,        \* int(time.time())
  loop,       \* the consumer run-loop: where it is, and its backoff timer
  link,       \* the run-loop's connection: "none", "up", "down"
  broker,     \* the bus side of the payment queue
  cb,         \* the consumer callback's current delivery
  sent,       \* number of enrollment events published so far
  consumer,   \* the module global _consumer
  threads,    \* the consumer threads that have been started
  starters    \* the threads calling start_consumer

payVars == <<payments, tasks, calls, now>>
conVars == <<loop, link, broker, cb, sent>>
startVars == <<consumer, threads, starters>>
vars == <<payments, tasks, calls, now, loop, link, broker, cb, sent,
          consumer, threads, starters>>

\* ---------------------------------------------------------------- bounds
NumWorkers == 1
MaxTime == 1
MaxHalves == 5
MaxMessages == 2
MaxDrops == 1
NumCallers == 3

Workers == 1..NumWorkers

\* the ids POST /payments may be handed by the store, and the ids a client
\* may name in approve and refund (an id not yet stored gets the 404)
PaymentIds == {1}

\* ------------------------------------------------------------ input sets
\* (student_id, enrollment_id, amount) a client may send; the amount is in
\* halves: 2.0, -1.5
Requests == {<<"S1", 42, 4>>, <<"S2", 7, -3>>}

\* the amounts of the gateway policy's specification, -2.5 .. 2.5
WideRequests == {<<"S1", 42, h>> : h \in -MaxHalves..MaxHalves}

\* ------------------------------------------------------------- the store
NoRef == <<>>

\* a new Payment row: the store assigns the next id, the transaction_ref
\* column is left NULL
Row(id, sid, eid, amt) ==
  [id |-> id, student_id |-> sid, enrollment_id |-> eid, amount |-> amt,
   status |-> "PENDING", transaction_ref |-> NoRef]

\* what .first() returns when no row matches
NoRow == [id |-> 0, student_id |-> "", enrollment_id |-> 0, amount |-> 0,
          status |-> "", transaction_ref |-> NoRef]

\* a row with this id is in the table (ids are never handed out twice, so
\* the place of a row removed from the table stays empty)
Exists(pid) == pid \in 1..Len(payments) /\ payments[pid].id = pid

\* db.query(Payment).filter(Payment.id == pid).first()
Query(pid) == IF Exists(pid) THEN payments[pid] ELSE NoRow

\* The unit of work's UPDATE at db.commit(): only the columns whose value in
\* the session object differs from the value loaded are written, onto the
\* row as it is in the store at that moment.
Flush(row, loaded, obj) ==
  [f \in DOMAIN row |-> IF obj[f] # loaded[f] THEN obj[f] ELSE row[f]]

\* the statuses committed so far, after a commit of obj loaded as loaded: the
\* status column is part of the UPDATE when the assignment changed it
Committed(seen, loaded, obj) ==
  IF obj.status # loaded.status THEN seen \cup {obj.status} ELSE seen

\* ------------------------------------------------------- gateway policy
\* int(amount) taken as the floor
IntOfFloor(h) == h \div 2

\* int(amount): truncation toward zero
IntOf(h) == IF h >= 0 THEN h \div 2 ELSE -((-h) \div 2)

\* success = int(amount) % 2 == 0
GatewaySuccess(h) == IntOf(h) % 2 = 0

\* f"tx-{payment_id}-{int(time.time())}"
GatewayRef(pid, t) == <<"tx", pid, t>>

\* f"tx-manual-{payment_id}-{int(time.time())}"
ManualRef(pid, t) == <<"tx-manual", pid, t>>

\* ------------------------------------------------------- outbound events
\* one call of publish_event: the routing key and the event, and whether the
\* bus took it (the except branch of publish_event logs and returns)
Event(type, key, pid, eid, sid, ok) ==
  [type |-> type, key |-> key, payment_id |-> pid, enrollment_id |-> eid,
   student_id |-> sid, delivered |-> ok]

ConfirmedEvent(pid, eid, sid, ok) ==
  Event("PaymentConfirmed", "payment.events.confirmed", pid, eid, sid, ok)

FailedEvent(pid, eid, sid, ok) ==
  Event("PaymentFailed", "payment.events.failed", pid, eid, sid, ok)

RefundedEvent(pid, eid, sid, ok) ==
  Event("PaymentRefunded", "payment.events.refund", pid, eid, sid, ok)

\* ---------------------------------------------------------- initial state
\* tasks[p]: the creating request and the background task of payment p.
\*   pc: "inserted" (row committed, request not yet returned), "scheduled"
\*   (request returned, task added), "loaded", "committed", "done"; "none"
\*   for a payment no task was ever added for.
\*   seen: the statuses UPDATEs have committed to the row so far.
NoTask == [pc |-> "none", origin |-> "event", student_id |-> "", enrollment_id |-> 0,
           amount |-> 0, ret |-> NoRow, snap |-> NoRow, pubs |-> <<>>,
           seen |-> {}]

\* calls[w]: the approve or refund call request worker w is running.
\*   prior: the status the call found; snap: the row as loaded, until the
\*   commit expires it; ret: the payment returned.
NoCall == [op |-> "", pid |-> 0, pc |-> "idle", prior |-> "", snap |-> NoRow,
           ret |-> NoRow, pubs |-> <<>>]

\* time.time() advances
Tick ==
  /\ now < MaxTime
  /\ now' = now + 1
  /\ UNCHANGED <<payments, tasks, calls, conVars, startVars>>

\* ------------------------------------------------ POST /payments (create)
\* db.add(payment); db.commit()
CreateInsert(sid, eid, amt) ==
  /\ Len(payments) + 1 \in PaymentIds
  /\ payments' = Append(payments, Row(Len(payments) + 1, sid, eid, amt))
  /\ tasks' = Append(tasks, [NoTask EXCEPT !.pc = "inserted", !.origin = "direct"])
  /\ UNCHANGED <<calls, now, conVars, startVars>>

\* db.refresh(payment); background_tasks.add_task(...); return PaymentOut
CreateReturn(p) ==
  /\ p \in DOMAIN tasks
  /\ tasks[p].pc = "inserted"
  /\ LET row == Query(p) IN
     tasks' = [tasks EXCEPT ![p] = [@ EXCEPT !.pc = "scheduled",
                                              !.student_id = row.student_id,
                                              !.enrollment_id = row.enrollment_id,
                                              !.amount = row.amount,
                                              !.ret = row]]
  /\ UNCHANGED <<payments, calls, now, conVars, startVars>>

\* ----------------------------------- process_payment_and_publish (task)
\* TaskLoad going on with whatever .first() returned
TaskLoadBlind(p) ==
  /\ p \in DOMAIN tasks
  /\ tasks[p].pc = "scheduled"
  /\ tasks' = [tasks EXCEPT ![p] = [@ EXCEPT !.pc = "loaded", !.snap = Query(p)]]
  /\ UNCHANGED <<payments, calls, now, conVars, startVars>>

\* time.sleep(1); success = ...; payment = db.query(...).first();
\* if not payment: print(...); return
TaskLoad(p) ==
  /\ p \in DOMAIN tasks
  /\ tasks[p].pc = "scheduled"
  /\ tasks' = [tasks EXCEPT ![p] =
       IF Exists(p)
       THEN [@ EXCEPT !.pc = "loaded", !.snap = Query(p)]
       ELSE [@ EXCEPT !.pc = "notfound"]]
  /\ UNCHANGED <<payments, calls, now, conVars, startVars>>

\* the object as assigned by the task before db.commit()
TaskObject(p) ==
  IF GatewaySuccess(tasks[p].amount)
  THEN [tasks[p].snap EXCEPT !.status = "SUCCESS",
                             !.transaction_ref = GatewayRef(p, now)]
  ELSE [tasks[p].snap EXCEPT !.status = "FAILED"]

\* payment.status = ...; db.commit()
TaskCommit(p) ==
  /\ p \in DOMAIN tasks
  /\ tasks[p].pc = "loaded"
  /\ payments' = [payments EXCEPT ![p] = Flush(@, tasks[p].snap, TaskObject(p))]
  /\ tasks' = [tasks EXCEPT ![p] =
       [@ EXCEPT !.pc = "committed", !.snap = NoRow,
                 !.seen = Committed(@, tasks[p].snap, TaskObject(p))]]
  /\ UNCHANGED <<calls, now, conVars, startVars>>

\* db.commit() raises: the outer except of the task logs it, nothing is
\* written and nothing published
TaskCommitFails(p) ==
  /\ p \in DOMAIN tasks
  /\ tasks[p].pc = "loaded"
  /\ tasks' = [tasks EXCEPT ![p] = [@ EXCEPT !.pc = "failed", !.snap = NoRow]]
  /\ UNCHANGED <<payments, calls, now, conVars, startVars>>

\* TaskEvent announcing a confirmation whatever the outcome
TaskEventAlwaysConfirmed(p, ok) ==
  ConfirmedEvent(Query(p).id, tasks[p].enrollment_id, tasks[p].student_id, ok)

\* the event the task publishes after the commit
TaskEvent(p, ok) ==
  IF GatewaySuccess(tasks[p].amount)
  THEN ConfirmedEvent(Query(p).id, tasks[p].enrollment_id, tasks[p].student_id, ok)
  ELSE FailedEvent(Query(p).id, tasks[p].enrollment_id, tasks[p].student_id, ok)

\* db.refresh(payment); publish_event(...)
TaskPublish(p, ok) ==
  /\ p \in DOMAIN tasks
  /\ tasks[p].pc = "committed"
  /\ tasks' = [tasks EXCEPT ![p] = [@ EXCEPT !.pc = "done",
                                             !.pubs = Append(@, TaskEvent(p, ok))]]
  /\ UNCHANGED <<payments, calls, now, conVars, startVars>>

\* ------------------------------------- approve_payment / refund_payment
\* payment = db.query(...).first(); if not payment: raise HTTPException(404)
CallLoad(w, op, pid) ==
  /\ calls[w].pc = "idle"
  /\ calls' = [calls EXCEPT ![w] =
       IF Exists(pid)
       THEN [NoCall EXCEPT !.op = op, !.pid = pid, !.pc = "loaded",
                          !.prior = Query(pid).status, !.snap = Query(pid)]
       ELSE [NoCall EXCEPT !.op = op, !.pid = pid, !.pc = "404"]]
  /\ UNCHANGED <<payments, tasks, now, conVars, startVars>>

\* CallObject with an approve that sets the status alone
CallObjectNoRef(w) ==
  IF calls[w].op = "approve"
  THEN [calls[w].snap EXCEPT !.status = "SUCCESS"]
  ELSE [calls[w].snap EXCEPT !.status = "REFUNDED"]

\* CallObject with a refund that also resets the reference
CallObjectClearingRef(w) ==
  IF calls[w].op = "approve"
  THEN [calls[w].snap EXCEPT !.status = "SUCCESS",
                             !.transaction_ref = ManualRef(calls[w].pid, now)]
  ELSE [calls[w].snap EXCEPT !.status = "REFUNDED", !.transaction_ref = NoRef]

\* CallObject with an approve that leaves a payment alone unless it is PENDING
CallObjectGuarded(w) ==
  IF calls[w].op = "approve"
  THEN IF calls[w].snap.status = "PENDING"
       THEN [calls[w].snap EXCEPT !.status = "SUCCESS",
                                  !.transaction_ref = ManualRef(calls[w].pid, now)]
       ELSE calls[w].snap
  ELSE [calls[w].snap EXCEPT !.status = "REFUNDED"]

\* the object as assigned by the handler before db.commit()
CallObject(w) ==
  IF calls[w].op = "approve"
  THEN [calls[w].snap EXCEPT !.status = "SUCCESS",
                             !.transaction_ref = ManualRef(calls[w].pid, now)]
  ELSE [calls[w].snap EXCEPT !.status = "REFUNDED"]

\* payment.status = ...; db.commit()
CallCommit(w) ==
  /\ calls[w].pc = "loaded"
  /\ payments' = [payments EXCEPT ![calls[w].pid] = Flush(@, calls[w].snap, CallObject(w))]
  /\ calls' = [calls EXCEPT ![w] = [@ EXCEPT !.pc = "committed", !.snap = NoRow]]
  /\ tasks' = [tasks EXCEPT ![calls[w].pid] =
       [@ EXCEPT !.seen = Committed(@, calls[w].snap, CallObject(w))]]
  /\ UNCHANGED <<now, conVars, startVars>>

\* CallCommitFails with the handler going on as if the commit had succeeded
CallCommitFailsUnnoticed(w) ==
  /\ calls[w].pc = "loaded"
  /\ calls' = [calls EXCEPT ![w] = [@ EXCEPT !.pc = "committed", !.snap = NoRow]]
  /\ UNCHANGED <<payments, tasks, now, conVars, startVars>>

\* db.commit() raises: the exception leaves the handler (a 500), nothing is
\* written and nothing published
CallCommitFails(w) ==
  /\ calls[w].pc = "loaded"
  /\ calls' = [calls EXCEPT ![w] = [@ EXCEPT !.pc = "500", !.snap = NoRow]]
  /\ UNCHANGED <<payments, tasks, now, conVars, startVars>>

\* CallEvent publishing the refund under the confirmation's routing key
CallEventWrongKey(w, ok) ==
  LET row == Query(calls[w].pid) IN
  IF calls[w].op = "approve"
  THEN ConfirmedEvent(row.id, row.enrollment_id, row.student_id, ok)
  ELSE Event("PaymentRefunded", "payment.events.confirmed", row.id,
             row.enrollment_id, row.student_id, ok)

\* the event the handler publishes after the commit and the refresh
CallEvent(w, ok) ==
  LET row == Query(calls[w].pid) IN
  IF calls[w].op = "approve"
  THEN ConfirmedEvent(row.id, row.enrollment_id, row.student_id, ok)
  ELSE RefundedEvent(row.id, row.enrollment_id, row.student_id, ok)

\* CallPublish with a publish_event that lets its exception through: the
\* handler ends in a 500 and returns no payment
CallPublishRaising(w, ok) ==
  /\ calls[w].pc = "committed"
  /\ calls' = [calls EXCEPT ![w] =
       IF ok
       THEN [@ EXCEPT !.pc = "done", !.ret = Query(calls[w].pid),
                      !.pubs = Append(@, CallEvent(w, ok))]
       ELSE [@ EXCEPT !.pc = "500"]]
  /\ UNCHANGED <<payments, tasks, now, conVars, startVars>>

\* db.refresh(payment); events.publish_event(...); return PaymentOut
CallPublish(w, ok) ==
  /\ calls[w].pc = "committed"
  /\ calls' = [calls EXCEPT ![w] = [@ EXCEPT !.pc = "done", !.ret = Query(calls[w].pid),
                                             !.pubs = Append(@, CallEvent(w, ok))]]
  /\ UNCHANGED <<payments, tasks, now, conVars, startVars>>

\* get_payment: query; 404 when there is no row, else return PaymentOut
GetPayment(w, pid) ==
  /\ calls[w].pc = "idle"
  /\ calls' = [calls EXCEPT ![w] =
       IF Exists(pid)
       THEN [NoCall EXCEPT !.op = "get", !.pid = pid, !.pc = "done",
                          !.prior = Query(pid).status, !.ret = Query(pid)]
       ELSE [NoCall EXCEPT !.op = "get", !.pid = pid, !.pc = "404"]]
  /\ UNCHANGED <<payments, tasks, now, conVars, startVars>>

\* the response has been sent (or the 404 or 500 raised): the worker is free
\* again
CallReturn(w) ==
  /\ calls[w].pc \in {"done", "404", "500"}
  /\ calls' = [calls EXCEPT ![w] = NoCall]
  /\ UNCHANGED <<payments, tasks, now, conVars, startVars>>

\* ------------------------------------------- inbound enrollment events
\* Message bodies as they arrive on the wire: json says whether json.loads
\* accepts the body, payload is body["payload"] with the keys it carries.
Bodies ==
  { [json |-> TRUE, payload |-> [enrollment_id |-> 42, student_id |-> "S1", amount |-> 4]],
    [json |-> TRUE, payload |-> [enrollment_id |-> 7, student_id |-> "S2"]],
    [json |-> TRUE, payload |-> [enrollment_id |-> 42]],
    [json |-> TRUE, payload |-> [student_id |-> "S1"]],
    [json |-> FALSE, payload |-> [garbage |-> TRUE]] }

\* the INSERT going through whatever the payload lacks
InsertNeverRaises(payload) == FALSE

\* the INSERT violates NOT NULL when payload.get() returned None for
\* student_id or enrollment_id
InsertRaises(payload) ==
  \/ "enrollment_id" \notin DOMAIN payload
  \/ "student_id" \notin DOMAIN payload

\* None where a column holds a student, and where it holds an enrollment
NoStudent == "None"
NoEnrollment == 0

\* student_id = payload.get("student_id")
StudentOf(payload) ==
  IF "student_id" \in DOMAIN payload THEN payload.student_id ELSE NoStudent

\* enrollment_id = payload.get("enrollment_id")
EnrollmentOf(payload) ==
  IF "enrollment_id" \in DOMAIN payload THEN payload.enrollment_id ELSE NoEnrollment

\* amount = payload.get("amount", 0.0)
AmountOf(payload) == IF "amount" \in DOMAIN payload THEN payload.amount ELSE 0

\* models.Payment(student_id=..., enrollment_id=..., amount=..., status="PENDING")
RegistrationPayment(id, payload) ==
  Row(id, StudentOf(payload), EnrollmentOf(payload), AmountOf(payload))

\* json.loads(body) or _process_registration_event raises
ProcessingRaises(body) == ~body.json \/ InsertRaises(body.payload)

BackoffInterval == 3

\* cb: the delivery the callback is handling or has just handled.
\*   before: the number of payments stored when it was delivered; after: the
\*   number of connection losses before it; acks, nacks: calls of basic_ack
\*   and basic_nack; settled: what the broker took, "ack", "nack", or "lost"
\*   when the connection was gone.
NoDelivery == [pc |-> "idle", body |-> [json |-> FALSE, payload |-> [garbage |-> TRUE]],
               raised |-> FALSE, before |-> 0, after |-> 0, acks |-> 0, nacks |-> 0,
               settled |-> ""]

\* the broker takes the connection's loss: an unacknowledged delivery goes
\* back to the head of a named queue; an exclusive queue goes with its
\* connection
BrokerOnClose(b) ==
  IF b.named
  THEN [b EXCEPT !.queue = b.unacked \o b.queue, !.unacked = <<>>]
  ELSE [b EXCEPT !.queue = <<>>, !.unacked = <<>>, !.exists = FALSE]

\* the enrollment service publishes an event on enrollment.events.#
EnrollmentPublish(body) ==
  /\ sent < MaxMessages
  /\ sent' = sent + 1
  /\ broker' = IF broker.exists THEN [broker EXCEPT !.queue = Append(@, body)] ELSE broker
  /\ UNCHANGED <<loop, link, cb, payVars, startVars>>

\* the connection to the bus is lost
LinkDrop ==
  /\ link = "up"
  /\ loop.drops < MaxDrops
  /\ link' = "down"
  /\ loop' = [loop EXCEPT !.drops = @ + 1]
  /\ broker' = BrokerOnClose(broker)
  /\ UNCHANGED <<cb, sent, payVars, startVars>>

\* the run-loop leaving its while loop on an error
ToExit == [loop EXCEPT !.pc = "EXITED"]

\* the except branches and the finally of the run-loop: close the
\* connection if it is open, then go and sleep
ToBackoff == [loop EXCEPT !.pc = "BACKOFF", !.timer = BackoffInterval]

\* conn = pika.BlockingConnection(params); ch = conn.channel()
ConnectOk ==
  /\ loop.pc = "CONNECTING"
  /\ loop' = [loop EXCEPT !.pc = "BOUND"]
  /\ link' = "up"
  /\ UNCHANGED <<broker, cb, sent, payVars, startVars>>

\* the bus is unreachable: AMQPConnectionError
ConnectFail ==
  /\ loop.pc = "CONNECTING"
  /\ loop' = ToBackoff
  /\ link' = "none"
  /\ UNCHANGED <<broker, cb, sent, payVars, startVars>>

\* exchange_declare, queue_declare, queue_bind, basic_qos, basic_consume,
\* start_consuming
Bind ==
  /\ loop.pc = "BOUND"
  /\ IF link = "up"
     THEN /\ loop' = [loop EXCEPT !.pc = "CONSUMING"]
          /\ broker' = [broker EXCEPT !.exists = TRUE]
          /\ link' = link
     ELSE /\ loop' = ToBackoff
          /\ broker' = broker
          /\ link' = "none"
  /\ UNCHANGED <<cb, sent, payVars, startVars>>

\* Deliver with no prefetch limit and a callback per delivery: the broker
\* hands over the next message while the last is still being handled
DeliverNoPrefetch ==
  /\ loop.pc = "CONSUMING"
  /\ link = "up"
  /\ broker.queue # <<>>
  /\ broker' = [broker EXCEPT !.queue = Tail(@),
                              !.unacked = Append(@, Head(broker.queue))]
  /\ cb' = [NoDelivery EXCEPT !.pc = "received", !.body = Head(broker.queue),
                              !.before = Len(payments), !.after = loop.drops]
  /\ UNCHANGED <<loop, link, sent, payVars, startVars>>

\* the broker hands the next message to the consumer (prefetch_count=1: only
\* when nothing is unacknowledged)
Deliver ==
  /\ loop.pc = "CONSUMING"
  /\ link = "up"
  /\ cb.pc \in {"idle", "returned"}
  /\ broker.unacked = <<>>
  /\ broker.queue # <<>>
  /\ broker' = [broker EXCEPT !.queue = Tail(@), !.unacked = <<Head(broker.queue)>>]
  /\ cb' = [NoDelivery EXCEPT !.pc = "received", !.body = Head(broker.queue),
                              !.before = Len(payments), !.after = loop.drops]
  /\ UNCHANGED <<loop, link, sent, payVars, startVars>>

\* CallbackProcess handing the new payment to the gateway simulator as
\* initiate_payment does
CallbackProcessScheduling ==
  /\ cb.pc = "received"
  /\ IF ProcessingRaises(cb.body)
     THEN /\ cb' = [cb EXCEPT !.pc = "processed", !.raised = TRUE]
          /\ UNCHANGED <<payments, tasks>>
     ELSE /\ payments' = Append(payments,
                                RegistrationPayment(Len(payments) + 1, cb.body.payload))
          /\ tasks' = Append(tasks,
               [NoTask EXCEPT !.pc = "scheduled",
                              !.student_id = StudentOf(cb.body.payload),
                              !.enrollment_id = EnrollmentOf(cb.body.payload),
                              !.amount = AmountOf(cb.body.payload)])
          /\ cb' = [cb EXCEPT !.pc = "processed"]
  /\ UNCHANGED <<calls, now, loop, link, broker, sent, startVars>>

\* callback: payload = json.loads(body); _process_registration_event(payload, db)
CallbackProcess ==
  /\ cb.pc = "received"
  /\ IF ProcessingRaises(cb.body)
     THEN /\ cb' = [cb EXCEPT !.pc = "processed", !.raised = TRUE]
          /\ UNCHANGED <<payments, tasks>>
     ELSE /\ payments' = Append(payments,
                                RegistrationPayment(Len(payments) + 1, cb.body.payload))
          /\ tasks' = Append(tasks, NoTask)
          /\ cb' = [cb EXCEPT !.pc = "processed"]
  /\ UNCHANGED <<calls, now, loop, link, broker, sent, startVars>>

\* CallbackSettle with basic_nack(requeue=True): the broker puts the message
\* back on the queue
CallbackSettleRequeue ==
  /\ cb.pc = "processed"
  /\ IF link = "up"
     THEN IF cb.raised
          THEN /\ cb' = [cb EXCEPT !.pc = "returned", !.nacks = @ + 1, !.settled = "nack"]
               /\ broker' = [broker EXCEPT !.unacked = <<>>,
                                           !.queue = Append(@, cb.body)]
          ELSE /\ cb' = [cb EXCEPT !.pc = "returned", !.acks = @ + 1, !.settled = "ack"]
               /\ broker' = [broker EXCEPT !.unacked = <<>>]
     ELSE /\ \E noticed \in BOOLEAN :
               cb' = [cb EXCEPT !.pc = "returned",
                                !.acks = IF cb.raised THEN @ ELSE @ + 1,
                                !.nacks = IF cb.raised \/ noticed THEN @ + 1 ELSE @,
                                !.settled = "lost"]
          /\ broker' = broker
  /\ UNCHANGED <<loop, link, sent, payVars, startVars>>

\* callback: ch.basic_ack(...), or in the except branch
\* ch.basic_nack(..., requeue=False), itself inside try/except: pass.
\* On a lost connection the broker gets neither. basic_ack then either
\* raises (noticed), which enters the except branch and its basic_nack, or
\* writes into the dead socket and returns.
CallbackSettle ==
  /\ cb.pc = "processed"
  /\ IF link = "up"
     THEN IF cb.raised
          THEN /\ cb' = [cb EXCEPT !.pc = "returned", !.nacks = @ + 1, !.settled = "nack"]
               /\ broker' = [broker EXCEPT !.unacked = <<>>]
          ELSE /\ cb' = [cb EXCEPT !.pc = "returned", !.acks = @ + 1, !.settled = "ack"]
               /\ broker' = [broker EXCEPT !.unacked = <<>>]
     ELSE /\ \E noticed \in BOOLEAN :
               cb' = [cb EXCEPT !.pc = "returned",
                                !.acks = IF cb.raised THEN @ ELSE @ + 1,
                                !.nacks = IF cb.raised \/ noticed THEN @ + 1 ELSE @,
                                !.settled = "lost"]
          /\ broker' = broker
  /\ UNCHANGED <<loop, link, sent, payVars, startVars>>

\* start_consuming raises on the lost connection; finally: conn.close()
ConsumeFails ==
  /\ loop.pc = "CONSUMING"
  /\ link = "down"
  /\ cb.pc \in {"idle", "returned"}
  /\ loop' = ToBackoff
  /\ link' = "none"
  /\ UNCHANGED <<broker, cb, sent, payVars, startVars>>

\* time.sleep(3), one time unit at a time
BackoffTick ==
  /\ loop.pc = "BACKOFF"
  /\ loop.timer > 0
  /\ loop' = [loop EXCEPT !.timer = @ - 1]
  /\ UNCHANGED <<link, broker, cb, sent, payVars, startVars>>

\* the sleep is over: next iteration of while True
BackoffDone ==
  /\ loop.pc = "BACKOFF"
  /\ loop.timer = 0
  /\ loop' = [loop EXCEPT !.pc = "CONNECTING"]
  /\ UNCHANGED <<link, broker, cb, sent, payVars, startVars>>

\* ------------------------------------------------------- start_consumer
Callers == 1..NumCallers

\* if _consumer is None:
StartCheck(c) ==
  /\ starters[c] \in {"idle", "done"}
  /\ starters' = [starters EXCEPT ![c] = IF consumer = 0 THEN "checked" ELSE "done"]
  /\ UNCHANGED <<consumer, threads, payVars, conVars>>

\* _consumer = threading.Thread(target=_consumer_runloop, ...)
StartAssign(c) ==
  /\ starters[c] = "checked"
  /\ consumer' = c
  /\ starters' = [starters EXCEPT ![c] = "assigned"]
  /\ UNCHANGED <<threads, payVars, conVars>>

\* _consumer.start(): starts the thread the global names at that moment; a
\* thread that is already started raises RuntimeError
StartThread(c) ==
  /\ starters[c] = "assigned"
  /\ IF consumer \in threads
     THEN /\ starters' = [starters EXCEPT ![c] = "error"]
          /\ UNCHANGED <<threads, loop>>
     ELSE /\ starters' = [starters EXCEPT ![c] = "done"]
          /\ threads' = threads \cup {consumer}
          /\ loop' = IF loop.pc = "NOT_STARTED" THEN [loop EXCEPT !.pc = "CONNECTING"]
                     ELSE loop
  /\ UNCHANGED <<consumer, link, broker, cb, sent, payVars>>

\* ------------------------------------------------------- specifications
\* a queue on the bus; named: start_consumer was given a queue name
\* (PAYMENT_QUEUE, default "payment_queue"), an empty name makes the queue
\* exclusive
NoQueue(named) == [named |-> named, exists |-> FALSE, queue |-> <<>>, unacked |-> <<>>]

\* after startup(): nothing stored, init_db done, start_consumer called
\* once, the run-loop about to connect
Init ==
  /\ payments = <<>>
  /\ tasks = <<>>
  /\ calls = [w \in Workers |-> NoCall]
  /\ now = 0
  /\ loop = [pc |-> "CONNECTING", timer |-> 0, drops |-> 0]
  /\ link = "none"
  /\ broker = NoQueue(TRUE)
  /\ cb = NoDelivery
  /\ sent = 0
  /\ consumer = 1
  /\ threads = {1}
  /\ starters = [c \in Callers |-> IF c = 1 THEN "done" ELSE "idle"]

\* the same, with the queue named or exclusive
InitConsumer ==
  /\ payments = <<>>
  /\ tasks = <<>>
  /\ calls = [w \in Workers |-> NoCall]
  /\ now = 0
  /\ loop = [pc |-> "CONNECTING", timer |-> 0, drops |-> 0]
  /\ link = "none"
  /\ broker \in {NoQueue(n) : n \in BOOLEAN}
  /\ cb = NoDelivery
  /\ sent = 0
  /\ consumer = 1
  /\ threads = {1}
  /\ starters = [c \in Callers |-> IF c = 1 THEN "done" ELSE "idle"]

\* the state at import: _consumer = None, no thread started, nobody has
\* called start_consumer
InitImported ==
  /\ payments = <<>>
  /\ tasks = <<>>
  /\ calls = [w \in Workers |-> NoCall]
  /\ now = 0
  /\ loop = [pc |-> "NOT_STARTED", timer |-> 0, drops |-> 0]
  /\ link = "none"
  /\ broker = NoQueue(TRUE)
  /\ cb = NoDelivery
  /\ sent = 0
  /\ consumer = 0
  /\ threads = {}
  /\ starters = [c \in Callers |-> "idle"]

PayNext ==
  \/ Tick
  \/ \E r \in Requests : CreateInsert(r[1], r[2], r[3])
  \/ \E p \in PaymentIds : CreateReturn(p)
  \/ \E p \in PaymentIds : TaskLoad(p)
  \/ \E p \in PaymentIds : TaskCommit(p)
  \/ \E p \in PaymentIds, ok \in BOOLEAN : TaskPublish(p, ok)
  \/ \E w \in Workers, op \in {"approve", "refund"}, pid \in PaymentIds :
       CallLoad(w, op, pid)
  \/ \E w \in Workers : CallCommit(w)
  \/ \E w \in Workers, ok \in BOOLEAN : CallPublish(w, ok)
  \/ \E w \in Workers : CallReturn(w)

ConNext ==
  \/ \E b \in Bodies : EnrollmentPublish(b)
  \/ LinkDrop
  \/ ConnectOk
  \/ ConnectFail
  \/ Bind
  \/ Deliver
  \/ CallbackProcess
  \/ CallbackSettle
  \/ ConsumeFails
  \/ BackoffTick
  \/ BackoffDone

StartNext ==
  \/ \E c \in Callers : StartCheck(c)
  \/ \E c \in Callers : StartAssign(c)
  \/ \E c \in Callers : StartThread(c)

\* the payment engine: requests, background tasks and the clock
Spec == Init /\ [][PayNext]_vars

\* no request and no task is between its query and its return
Quiet ==
  /\ \A p \in DOMAIN tasks : tasks[p].pc \in {"none", "scheduled", "notfound", "done"}
  /\ \A w \in Workers : calls[w].pc \in {"idle", "done", "404"}

SeqNext ==
  \/ Tick
  \/ \E r \in Requests : Quiet /\ CreateInsert(r[1], r[2], r[3])
  \/ \E p \in PaymentIds : CreateReturn(p)
  \/ \E p \in PaymentIds : Quiet /\ TaskLoad(p)
  \/ \E p \in PaymentIds : TaskCommit(p)
  \/ \E p \in PaymentIds, ok \in BOOLEAN : TaskPublish(p, ok)
  \/ \E w \in Workers, op \in {"approve", "refund"}, pid \in PaymentIds :
       Quiet /\ CallLoad(w, op, pid)
  \/ \E w \in Workers : CallCommit(w)
  \/ \E w \in Workers, ok \in BOOLEAN : CallPublish(w, ok)
  \/ \E w \in Workers : CallReturn(w)

\* the payment engine with its operations run one after the other
SpecSeq == Init /\ [][SeqNext]_vars

\* a row is removed from the table behind the service, which has no delete
\* operation of its own: the case process_payment_and_publish tests for
RowRemoved(p) ==
  /\ Quiet
  /\ Exists(p)
  /\ payments' = [payments EXCEPT ![p] = NoRow]
  /\ UNCHANGED <<tasks, calls, now, conVars, startVars>>

NotFoundNext ==
  \/ SeqNext
  \/ \E p \in PaymentIds : RowRemoved(p)
  \/ \E w \in Workers, pid \in PaymentIds : Quiet /\ GetPayment(w, pid)

\* operations run one after the other on ids that may not exist
SpecNotFound == Init /\ [][NotFoundNext]_vars

FaultyNext ==
  \/ \E r \in Requests : CreateInsert(r[1], r[2], r[3])
  \/ \E p \in PaymentIds : CreateReturn(p)
  \/ \E p \in PaymentIds : TaskLoad(p)
  \/ \E p \in PaymentIds : TaskCommit(p)
  \/ \E p \in PaymentIds : TaskCommitFails(p)
  \/ \E p \in PaymentIds, ok \in BOOLEAN : TaskPublish(p, ok)
  \/ \E w \in Workers, op \in {"approve", "refund"}, pid \in PaymentIds :
       CallLoad(w, op, pid)
  \/ \E w \in Workers : CallCommit(w)
  \/ \E w \in Workers : CallCommitFails(w)
  \/ \E w \in Workers, ok \in BOOLEAN : CallPublish(w, ok)
  \/ \E w \in Workers : CallReturn(w)

\* the payment engine, within one second, with a store whose commits may
\* fail
SpecFaulty == Init /\ [][FaultyNext]_vars

\* no request, no task and no callback is under way
Idle == Quiet /\ cb.pc \in {"idle", "returned"}

InboundNext ==
  \/ \E r \in Requests : Idle /\ CreateInsert(r[1], r[2], r[3])
  \/ \E p \in PaymentIds : CreateReturn(p)
  \/ \E p \in PaymentIds : Idle /\ TaskLoad(p)
  \/ \E p \in PaymentIds : TaskCommit(p)
  \/ \E p \in PaymentIds, ok \in BOOLEAN : TaskPublish(p, ok)
  \/ \E w \in Workers, op \in {"approve", "refund"}, pid \in PaymentIds :
       Idle /\ CallLoad(w, op, pid)
  \/ \E w \in Workers : CallCommit(w)
  \/ \E w \in Workers, ok \in BOOLEAN : CallPublish(w, ok)
  \/ \E w \in Workers : CallReturn(w)
  \/ \E b \in {v \in Bodies : ~ProcessingRaises(v)} : EnrollmentPublish(b)
  \/ ConnectOk
  \/ Bind
  \/ Idle /\ Deliver
  \/ CallbackProcess
  \/ CallbackSettle

\* the payment engine, within one second, together with the consumer on a
\* connection that stays up: payments come from POST /payments and from
\* well-formed enrollment events, and requests, tasks and callbacks run one
\* after the other
SpecInbound == Init /\ [][InboundNext]_vars

GatewayNext ==
  \/ Tick
  \/ \E r \in WideRequests : CreateInsert(r[1], r[2], r[3])
  \/ \E p \in PaymentIds : CreateReturn(p)
  \/ \E p \in PaymentIds : TaskLoad(p)
  \/ \E p \in PaymentIds : TaskCommit(p)
  \/ \E p \in PaymentIds, ok \in BOOLEAN : TaskPublish(p, ok)

\* payments of any amount left to their background task
SpecGateway == Init /\ [][GatewayNext]_vars

\* the consumer run-loop and the bus
SpecConsumer == InitConsumer /\ [][ConNext]_vars

\* the run-loop thread is scheduled; the bus eventually becomes reachable
ConFairness ==
  /\ SF_vars(ConnectOk)
  /\ WF_vars(Bind)
  /\ WF_vars(Deliver)
  /\ WF_vars(CallbackProcess)
  /\ WF_vars(CallbackSettle)
  /\ WF_vars(ConsumeFails)
  /\ WF_vars(BackoffTick)
  /\ WF_vars(BackoffDone)

SpecConsumerFair == SpecConsumer /\ ConFairness

\* threads calling start_consumer
SpecStart == InitImported /\ [][StartNext]_vars

\* ---------------------------------------------------------------- claims
\* the status an outbound event describes
StatusOf(type) ==
  CASE type = "PaymentConfirmed" -> "SUCCESS"
    [] type = "PaymentFailed" -> "FAILED"
    [] type = "PaymentRefunded" -> "REFUNDED"

\* C1: whenever the background task commits its outcome, the committed status
\* of the payment it writes over is PENDING (never SUCCESS, FAILED or
\* REFUNDED), in every interleaving with approve and refund.
C1_TaskWritesOnlyOverPending ==
  [][\A p \in PaymentIds :
       (p \in DOMAIN tasks /\ tasks[p].pc = "loaded" /\ tasks'[p].pc = "committed")
         => payments[p].status = "PENDING"]_vars

\* C2 as stated: once a payment's transaction_ref is set, no step changes it.
C2_RefSetExactlyOnce ==
  [][\A p \in DOMAIN payments :
       payments[p].transaction_ref # NoRef
         => payments'[p].transaction_ref = payments[p].transaction_ref]_vars

\* C2 as amended: transaction_ref is null until a commit makes the status
\* SUCCESS, every step that makes the status SUCCESS leaves it non-null, and
\* once non-null it is never cleared (a later approve or gateway success may
\* replace it by a fresh value).
C2_RefSetOnSuccessNeverCleared ==
  [][\A p \in DOMAIN payments :
       /\ payments[p].transaction_ref # NoRef => payments'[p].transaction_ref # NoRef
       /\ (payments[p].transaction_ref = NoRef /\ payments'[p].transaction_ref # NoRef)
            => payments'[p].status = "SUCCESS"
       /\ (payments[p].status # "SUCCESS" /\ payments'[p].status = "SUCCESS")
            => payments'[p].transaction_ref # NoRef]_vars

\* C2 witness: the gateway outcome had set a reference and a later approve has
\* replaced it; the payment was refunded since and keeps the reference.
C2_Witness ==
  \E p \in DOMAIN payments :
    /\ tasks[p].pc = "done"
    /\ GatewaySuccess(payments[p].amount)
    /\ payments[p].status = "REFUNDED"
    /\ payments[p].transaction_ref # NoRef
    /\ payments[p].transaction_ref[1] = "tx-manual"

\* C3: every event an operation has published describes a status that an
\* earlier commit wrote to that payment, it names that payment, and no
\* operation publishes more than one event; an operation that has not
\* committed (or found no payment) has published nothing.
C3_EventsFollowCommits ==
  /\ \A p \in DOMAIN tasks :
       /\ Len(tasks[p].pubs) <= 1
       /\ tasks[p].pc # "done" => tasks[p].pubs = <<>>
       /\ \A i \in DOMAIN tasks[p].pubs :
            /\ StatusOf(tasks[p].pubs[i].type) \in tasks[p].seen
            /\ tasks[p].pubs[i].payment_id = p
  /\ \A w \in Workers :
       /\ Len(calls[w].pubs) <= 1
       /\ calls[w].pc # "done" => calls[w].pubs = <<>>
       /\ \A i \in DOMAIN calls[w].pubs :
            /\ calls[w].pid \in DOMAIN tasks
            /\ StatusOf(calls[w].pubs[i].type) \in tasks[calls[w].pid].seen
            /\ calls[w].pubs[i].payment_id = calls[w].pid

\* C3 witness: a refund has published PaymentRefunded after the background
\* task had published its own outcome event for the same payment.
C3_Witness ==
  \E w \in Workers :
    /\ calls[w].pc = "done"
    /\ calls[w].op = "refund"
    /\ calls[w].pubs # <<>>
    /\ calls[w].pubs[1].type = "PaymentRefunded"
    /\ tasks[calls[w].pid].pubs # <<>>


\* the integer part of an amount of h halves, truncated toward zero, said
\* without division: the t of h's sign with 2|t| <= |h| < 2|t| + 2
Abs(x) == IF x < 0 THEN -x ELSE x

Truncated(h) ==
  CHOOSE t \in -MaxHalves..MaxHalves :
    /\ 2 * Abs(t) <= Abs(h)
    /\ Abs(h) < 2 * Abs(t) + 2
    /\ (t # 0 => (t < 0 <=> h < 0))

\* floor(a) of an amount of h halves: the greatest t with 2t <= h
Floored(h) ==
  CHOOSE t \in -(MaxHalves + 1)..MaxHalves : 2 * t <= h /\ h < 2 * t + 2

\* C4 as stated: when outcome processing of a payment has run, its status is
\* SUCCESS iff floor(amount) is even, FAILED otherwise, and its
\* transaction_ref is non-null iff the status is SUCCESS.
C4_OutcomeByFloor ==
  \A p \in DOMAIN payments :
    tasks[p].pc \in {"committed", "done"} =>
      /\ payments[p].status = IF Floored(payments[p].amount) % 2 = 0
                              THEN "SUCCESS" ELSE "FAILED"
      /\ payments[p].transaction_ref # NoRef <=> payments[p].status = "SUCCESS"

\* C4 as amended: when outcome processing of a payment of finite amount has
\* run, its status is SUCCESS iff the amount truncated toward zero is even
\* (which is floor only for amounts >= 0 and for whole amounts), FAILED
\* otherwise, and its transaction_ref is non-null iff the status is SUCCESS.
C4_OutcomeByTruncation ==
  \A p \in DOMAIN payments :
    tasks[p].pc \in {"committed", "done"} =>
      /\ payments[p].status = IF Truncated(payments[p].amount) % 2 = 0
                              THEN "SUCCESS" ELSE "FAILED"
      /\ payments[p].transaction_ref # NoRef <=> payments[p].status = "SUCCESS"

\* C4 witness: a payment of -1.5 (floor -2, integer part -1) has FAILED.
C4_Witness ==
  \E p \in DOMAIN payments :
    /\ tasks[p].pc = "done"
    /\ payments[p].amount = -3
    /\ payments[p].status = "FAILED"
    /\ payments[p].transaction_ref = NoRef

\* C5: a directly created payment no manual operation touches is returned
\* PENDING; once its background task has run it is SUCCESS with a
\* transaction_ref and one PaymentConfirmed event (even amount) or FAILED
\* with no transaction_ref and one PaymentFailed event (odd amount); the event
\* carries the payment's own payment_id, enrollment_id and student_id, and
\* the task never publishes a second event.
C5_DirectPaymentOutcome ==
  \A p \in DOMAIN payments :
    LET t == tasks[p]
        row == payments[p]
        even == Truncated(row.amount) % 2 = 0
    IN /\ t.pc \notin {"none", "inserted"} =>
            (t.ret.id = p /\ t.ret.status = "PENDING" /\ t.ret.transaction_ref = NoRef)
       /\ t.pc \in {"inserted", "scheduled", "loaded"} =>
            (row.status = "PENDING" /\ row.transaction_ref = NoRef)
       /\ Len(t.pubs) <= 1
       /\ t.pc # "done" => t.pubs = <<>>
       /\ t.pc = "done" =>
            /\ Len(t.pubs) = 1
            /\ t.pubs[1].payment_id = row.id
            /\ t.pubs[1].enrollment_id = row.enrollment_id
            /\ t.pubs[1].student_id = row.student_id
            /\ even => /\ row.status = "SUCCESS"
                       /\ row.transaction_ref # NoRef
                       /\ t.pubs[1].type = "PaymentConfirmed"
                       /\ t.pubs[1].key = "payment.events.confirmed"
            /\ ~even => /\ row.status = "FAILED"
                        /\ row.transaction_ref = NoRef
                        /\ t.pubs[1].type = "PaymentFailed"
                        /\ t.pubs[1].key = "payment.events.failed"

\* C5 witness: a payment of odd amount has FAILED and its PaymentFailed event
\* has been published.
C5_Witness ==
  \E p \in DOMAIN payments :
    /\ tasks[p].pc = "done"
    /\ payments[p].amount = 2
    /\ payments[p].status = "FAILED"
    /\ tasks[p].pubs # <<>>
    /\ tasks[p].pubs[1].type = "PaymentFailed"
    /\ tasks[p].pubs[1].delivered

\* C6: with calls run one after the other, every approve of an existing
\* payment returns it with status SUCCESS, whatever status it found, and
\* publishes PaymentConfirmed under payment.events.confirmed exactly once: a
\* second approve of the same payment publishes the event a second time.
C6_ApproveEachTime ==
  \A w \in Workers :
    (calls[w].pc = "done" /\ calls[w].op = "approve") =>
      /\ calls[w].ret.id = calls[w].pid
      /\ calls[w].ret.status = "SUCCESS"
      /\ Len(calls[w].pubs) = 1
      /\ calls[w].pubs[1].type = "PaymentConfirmed"
      /\ calls[w].pubs[1].key = "payment.events.confirmed"
      /\ calls[w].pubs[1].payment_id = calls[w].pid

\* C6 witness: an approve has completed on a payment that only an earlier
\* approve can have made SUCCESS (its amount is odd), and has published
\* PaymentConfirmed again.
C6_Witness ==
  \E w \in Workers :
    /\ calls[w].pc = "done"
    /\ calls[w].op = "approve"
    /\ calls[w].prior = "SUCCESS"
    /\ ~GatewaySuccess(payments[calls[w].pid].amount)
    /\ calls[w].ret.status = "SUCCESS"
    /\ Len(calls[w].pubs) = 1

\* C7: with calls run one after the other, every refund of an existing
\* payment, whatever status it found, returns it with status REFUNDED and
\* publishes exactly one PaymentRefunded event under payment.events.refund
\* carrying the payment's payment_id, enrollment_id and student_id.
C7_RefundFromAnyStatus ==
  \A w \in Workers :
    (calls[w].pc = "done" /\ calls[w].op = "refund") =>
      /\ calls[w].prior \in {"PENDING", "SUCCESS", "FAILED", "REFUNDED"}
      /\ calls[w].ret.status = "REFUNDED"
      /\ Len(calls[w].pubs) = 1
      /\ calls[w].pubs[1].type = "PaymentRefunded"
      /\ calls[w].pubs[1].key = "payment.events.refund"
      /\ calls[w].pubs[1].payment_id = calls[w].pid
      /\ calls[w].pubs[1].enrollment_id = payments[calls[w].pid].enrollment_id
      /\ calls[w].pubs[1].student_id = payments[calls[w].pid].student_id

\* C7 witness: a refund has completed on a payment that was REFUNDED already.
C7_Witness ==
  \E w \in Workers :
    /\ calls[w].pc = "done"
    /\ calls[w].op = "refund"
    /\ calls[w].prior = "REFUNDED"
    /\ calls[w].ret.status = "REFUNDED"
    /\ Len(calls[w].pubs) = 1


\* a valid payload: a decodable body whose payload carries enrollment_id and
\* student_id
ValidBody(body) ==
  body.json /\ {"enrollment_id", "student_id"} \subseteq DOMAIN body.payload

C9_LoopReconnects ==
  /\ [](loop.pc \in {"CONNECTING", "BOUND", "CONSUMING", "BACKOFF"})
  /\ [][/\ (loop.pc = "BACKOFF" /\ loop'.pc # "BACKOFF")
             => (loop.timer = 0 /\ loop'.pc = "CONNECTING")
        /\ (loop.pc # "BACKOFF" /\ loop'.pc = "BACKOFF")
             => (loop'.timer = BackoffInterval /\ link' = "none")]_vars
  /\ (loop.pc = "BACKOFF") ~> (loop.pc = "CONSUMING")
  /\ (cb.pc = "received") ~> (cb.pc = "returned")

\* C9 witness: after a connection loss the loop is CONSUMING again and has
\* handled a message delivered after the reconnection.
C9_Witness ==
  /\ loop.pc = "CONSUMING"
  /\ loop.drops >= 1
  /\ cb.pc = "returned"
  /\ cb.after >= 1
  /\ cb.settled = "ack"

\* C10: at most one consumer thread is ever started, however start_consumer
\* is called, also from several threads at once.
C10_AtMostOneConsumerThread == Cardinality(threads) <= 1


\* C11: every payment created by POST /payments is stored PENDING with a
\* null transaction_ref, is returned to the caller in that state, and is
\* returned before its background task has loaded or committed anything.
C11_CreatedAndReturnedPending ==
  \A p \in DOMAIN payments :
    tasks[p].origin = "direct" =>
      /\ tasks[p].pc \in {"inserted", "scheduled"} => tasks[p].pubs = <<>>
      /\ tasks[p].pc # "inserted" =>
           /\ tasks[p].ret.id = p
           /\ tasks[p].ret.status = "PENDING"
           /\ tasks[p].ret.transaction_ref = NoRef


\* C12: with calls run one after the other, a publish the bus does not take
\* changes nothing else: the step that attempts the publish always ends the
\* operation normally (publish_event does not raise), leaves the store as
\* committed, and approve/refund return the payment with the status they
\* wrote; the operation has called publish_event once, with no retry.
C12_PublishFailureSwallowed ==
  /\ [](\A w \in Workers :
          (calls[w].pc = "done" /\ calls[w].op \in {"approve", "refund"}) =>
            /\ Len(calls[w].pubs) = 1
            /\ calls[w].ret.id = calls[w].pid
            /\ calls[w].ret.status =
                 (IF calls[w].op = "approve" THEN "SUCCESS" ELSE "REFUNDED"))
  /\ [](\A p \in DOMAIN tasks : tasks[p].pc = "done" => Len(tasks[p].pubs) = 1)
  /\ [][/\ \A w \in Workers :
             (calls[w].pc = "committed" /\ calls'[w] # calls[w]) =>
               (calls'[w].pc = "done" /\ payments' = payments)
        /\ \A p \in DOMAIN tasks :
             (tasks[p].pc = "committed" /\ tasks'[p] # tasks[p]) =>
               (tasks'[p].pc = "done" /\ payments' = payments)]_vars

\* C12 witness: an approve and the background task of the same payment have
\* both returned after a publish the bus did not take, and the payment is
\* still as the approve committed it.
C12_Witness ==
  \E w \in Workers :
    /\ calls[w].pc = "done"
    /\ calls[w].op = "approve"
    /\ ~calls[w].pubs[1].delivered
    /\ calls[w].ret.status = "SUCCESS"
    /\ payments[calls[w].pid].status = "SUCCESS"
    /\ payments[calls[w].pid].transaction_ref = calls[w].ret.transaction_ref
    /\ tasks[calls[w].pid].pc = "done"
    /\ ~tasks[calls[w].pid].pubs[1].delivered


\* C13: with operations run one after the other, get, approve and refund of
\* an id with no row end in the 404 and background outcome processing of an
\* id with no row returns; none of them has published anything or returned a
\* payment, and the step leaves the table as it was.
C13_NotFoundChangesNothing ==
  /\ [](\A w \in Workers :
          calls[w].pc = "404" =>
            /\ calls[w].op \in {"get", "approve", "refund"}
            /\ calls[w].pubs = <<>>
            /\ calls[w].ret = NoRow)
  /\ [](\A p \in DOMAIN tasks : tasks[p].pc = "notfound" => tasks[p].pubs = <<>>)
  /\ [][/\ \A w \in Workers :
             (calls[w].pc = "idle" /\ calls'[w].pc # "idle" /\ ~Exists(calls'[w].pid)) =>
               (calls'[w].pc = "404" /\ payments' = payments)
        /\ \A p \in DOMAIN tasks :
             (tasks[p].pc = "scheduled" /\ tasks'[p].pc # "scheduled" /\ ~Exists(p)) =>
               (tasks'[p].pc = "notfound" /\ payments' = payments)]_vars

\* C13 witness: the background task of a payment whose row is gone has
\* returned without an event, and a refund of the same id has got the 404.
C13_Witness ==
  \E w \in Workers :
    /\ calls[w].pc = "404"
    /\ calls[w].op = "refund"
    /\ calls[w].pid \in DOMAIN tasks
    /\ tasks[calls[w].pid].pc = "notfound"
    /\ ~Exists(calls[w].pid)


\* C14: in every interleaving, with commits that may fail, an operation
\* attempts its publish only from the state it is in after its commit has
\* succeeded; when it enters that state its write is in the store; and an
\* operation that has not committed, or whose commit failed, has published
\* nothing.
C14_PublishOnlyAfterCommit ==
  /\ [](\A w \in Workers :
          calls[w].pc \in {"loaded", "500"} => calls[w].pubs = <<>>)
  /\ [](\A p \in DOMAIN tasks :
          tasks[p].pc \in {"scheduled", "loaded", "failed"} => tasks[p].pubs = <<>>)
  /\ [][/\ \A w \in Workers :
             /\ (calls'[w].pubs # calls[w].pubs /\ calls'[w].pubs # <<>>) =>
                  (calls[w].pc = "committed" /\ payments' = payments)
             /\ (calls[w].pc = "loaded" /\ calls'[w].pc = "committed") =>
                  payments'[calls[w].pid] =
                    Flush(payments[calls[w].pid], calls[w].snap, CallObject(w))
        /\ \A p \in DOMAIN tasks :
             /\ (tasks'[p].pubs # tasks[p].pubs) =>
                  (tasks[p].pc = "committed" /\ payments' = payments)
             /\ (tasks[p].pc = "loaded" /\ tasks'[p].pc = "committed") =>
                  payments'[p] = Flush(payments[p], tasks[p].snap, TaskObject(p))]_vars

\* C14 witness: an approve whose commit failed has ended without an event and
\* without a change to the payment, which the background task, whose commit
\* succeeded, has made FAILED and announced.
C14_Witness ==
  \E w \in Workers :
    /\ calls[w].pc = "500"
    /\ calls[w].op = "approve"
    /\ calls[w].pubs = <<>>
    /\ payments[calls[w].pid].status = "FAILED"
    /\ payments[calls[w].pid].transaction_ref = NoRef
    /\ tasks[calls[w].pid].pc = "done"
    /\ Len(tasks[calls[w].pid].pubs) = 1


\* C15 as stated: every message the callback has handled has been settled
\* with the broker, by exactly one call of basic_ack or basic_nack.
C15_SettledExactlyOnce ==
  cb.pc = "returned" =>
    /\ cb.settled \in {"ack", "nack"}
    /\ cb.acks + cb.nacks = 1

\* C15 as amended: a message the callback settles while its connection is up
\* is settled by exactly one call, basic_ack when processing succeeded and
\* basic_nack when it raised, and is then gone from the broker (not put back
\* on the queue); no step of the callback changes the state of the run-loop,
\* whatever processing raised. A message is left unsettled only when the
\* connection was lost before the callback settled it; the callback then
\* makes at most one call of each kind, to no effect.
C15_SettledOnceWhileConnected ==
  /\ [](cb.pc = "returned" =>
          /\ cb.settled \in {"ack", "nack", "lost"}
          /\ cb.settled = "ack" => (~cb.raised /\ cb.acks = 1 /\ cb.nacks = 0)
          /\ cb.settled = "nack" => (cb.raised /\ cb.acks = 0 /\ cb.nacks = 1)
          /\ cb.settled = "lost" => (cb.after < loop.drops /\ cb.acks <= 1 /\ cb.nacks <= 1))
  /\ [][/\ (cb.pc \in {"received", "processed"} /\ cb' # cb) => loop' = loop
        /\ (cb.pc = "processed" /\ cb'.pc = "returned" /\ link = "up") =>
             /\ cb'.settled \in {"ack", "nack"}
             /\ broker.unacked = <<cb.body>>
             /\ broker'.unacked = <<>>
             /\ broker'.queue = broker.queue]_vars

\* C15 witness: a malformed message has been negative-acknowledged on a live
\* connection, the run-loop is still consuming and the broker holds nothing
\* more to deliver.
C15_Witness ==
  /\ cb.pc = "returned"
  /\ cb.raised
  /\ cb.settled = "nack"
  /\ loop.pc = "CONSUMING"
  /\ link = "up"
  /\ sent = MaxMessages
  /\ broker.queue = <<>>
  /\ broker.unacked = <<>>


\* C16: in every interleaving, the commit of an operation leaves the stored
\* payment in the state that operation wrote: the status it assigned and,
\* where it assigns one, its transaction_ref. (With no later commit, that is
\* the state found once all operations have completed.)
C16_LastCommitWins ==
  [][/\ \A w \in Workers :
          (calls[w].pc = "loaded" /\ calls'[w].pc = "committed") =>
            /\ payments'[calls[w].pid].status = CallObject(w).status
            /\ calls[w].op = "approve" =>
                 payments'[calls[w].pid].transaction_ref = CallObject(w).transaction_ref
     /\ \A p \in DOMAIN tasks :
          (tasks[p].pc = "loaded" /\ tasks'[p].pc = "committed") =>
            /\ payments'[p].status = TaskObject(p).status
            /\ GatewaySuccess(tasks[p].amount) =>
                 payments'[p].transaction_ref = TaskObject(p).transaction_ref]_vars


\* C17: the consumer handles one message at a time: the broker never has
\* more than one message unacknowledged, which on a live connection is the
\* one the callback is handling; the handling of a message begins only when
\* the callback is idle or has returned from the previous one; and a payment
\* is created only by the processing step of the message being handled.
C17_OneMessageAtATime ==
  /\ [](Len(broker.unacked) <= 1)
  /\ []((cb.pc \in {"received", "processed"} /\ cb.after = loop.drops) =>
          broker.unacked = <<cb.body>>)
  /\ [][/\ (cb'.pc = "received" /\ cb' # cb) => cb.pc \in {"idle", "returned"}
        /\ (Len(payments') # Len(payments)) =>
             (cb.pc = "received" /\ cb'.pc = "processed"
              /\ Len(payments') = Len(payments) + 1)]_vars

\* C17 witness: the second message waits on the queue while the callback is
\* still handling the first.
C17_Witness ==
  /\ cb.pc = "processed"
  /\ link = "up"
  /\ broker.unacked = <<cb.body>>
  /\ Len(broker.queue) = 1
  /\ sent = 2
  /\ cb.before = 0


\* C18: a payment created from an inbound event never has a background task
\* and its task slot never publishes; it is PENDING with a null
\* transaction_ref as long as no approve or refund has committed a status to
\* it, it is never FAILED, no PaymentFailed is ever published for it, and
\* the only steps that change it are commits of approve or refund calls.
C18_EventPaymentsNotAutoProcessed ==
  /\ [](\A p \in DOMAIN payments :
          tasks[p].origin = "event" =>
            /\ tasks[p].pc = "none"
            /\ tasks[p].pubs = <<>>
            /\ payments[p].status # "FAILED"
            /\ tasks[p].seen = {} =>
                 (payments[p].status = "PENDING" /\ payments[p].transaction_ref = NoRef)
            /\ \A w \in Workers :
                 calls[w].pid = p =>
                   \A i \in DOMAIN calls[w].pubs :
                     calls[w].pubs[i].type \in {"PaymentConfirmed", "PaymentRefunded"})
  /\ [][\A p \in DOMAIN payments :
          (tasks[p].origin = "event" /\ payments'[p] # payments[p]) =>
            \E w \in Workers :
              /\ calls[w].pid = p
              /\ calls[w].op \in {"approve", "refund"}
              /\ calls[w].pc = "loaded"
              /\ calls'[w].pc = "committed"]_vars

\* C18 witness: a payment created from an inbound event was still PENDING
\* when an approve found it, after the callback had returned, and is SUCCESS
\* by that approve alone.
C18_Witness ==
  \E w \in Workers :
    /\ calls[w].pc = "done"
    /\ calls[w].op = "approve"
    /\ calls[w].prior = "PENDING"
    /\ tasks[calls[w].pid].origin = "event"
    /\ tasks[calls[w].pid].pc = "none"
    /\ payments[calls[w].pid].status = "SUCCESS"
    /\ tasks[calls[w].pid].seen = {"SUCCESS"}
    /\ cb.pc = "returned"


\* C19: in every reachable state of every interleaving of the background
\* task with approve and refund, a payment whose committed status is SUCCESS
\* has a non-null transaction_ref.
C19_SuccessHasRef ==
  \A p \in DOMAIN payments :
    payments[p].status = "SUCCESS" => payments[p].transaction_ref # NoRef

\* C19 witness: a payment of odd amount, which its background task made
\* FAILED, is SUCCESS by a later approve and carries the approve's reference.
C19_Witness ==
  \E p \in DOMAIN payments :
    /\ payments[p].status = "SUCCESS"
    /\ ~GatewaySuccess(payments[p].amount)
    /\ tasks[p].pc = "done"
    /\ "FAILED" \in tasks[p].seen
    /\ payments[p].transaction_ref # NoRef
    /\ payments[p].transaction_ref[1] = "tx-manual"

\* C20: in every reachable state of every interleaving of the background
\* task with approve and refund, a payment whose committed status is PENDING
\* or FAILED has a null transaction_ref.
C20_PendingFailedHaveNoRef ==
  \A p \in DOMAIN payments :
    payments[p].status \in {"PENDING", "FAILED"} => payments[p].transaction_ref = NoRef

====
